---- MODULE Spec2Model ----
(***************************************************************************)
(* Model of mcp_server/server.py (HotelBookings): the tools crear_reserva, *)
(* cancelar_reserva, verificar_disponibilidad, calcular_presupuesto and    *)
(* obtener_opciones_habitacion running as concurrent tasks against one     *)
(* PostgreSQL database through asyncpg.                                    *)
(*                                                                         *)
(* Every tool call opens its own connection to the database named by       *)
(* DATABASE_URL.  The database exists before the server starts: no tool    *)
(* creates a table or writes Rooms or RoomTypes, so the initial state      *)
(* ranges over contents of Users, Bookings and RoomAssignments.  Every     *)
(* `await` on a statement that reads or writes a table another task can    *)
(* write is one step; statements before the first such statement of a call *)
(* are part of the step that starts the call.                              *)
(*                                                                         *)
(* crear_reserva as it stands in server.py never reaches its INSERTs.  It  *)
(* opens a transaction and looks the room type up; then the room SELECT    *)
(* (lines 102-107) is handed fecha_entrada and fecha_salida as str for the *)
(* parameters $2::date and $3::date.  asyncpg encodes a date parameter     *)
(* from a datetime.date and raises DataError for a str before the          *)
(* statement is executed; the exception leaves the transaction block       *)
(* (rollback) and line 128 returns "Error: invalid input for query         *)
(* argument $2: ...".  Lines 109-126 (the no-rooms answer, the night       *)
(* computation, the upsert, the two INSERTs and the confirmation) are not  *)
(* reachable, and the model has no step for them.                          *)
(*                                                                         *)
(* calcular_noches is called by calcular_presupuesto (line 59) and by      *)
(* crear_reserva (line 111) but is defined and imported nowhere:           *)
(* evaluating the name raises NameError.  calcular_presupuesto has no      *)
(* except clause, so for every label that matches a room type the          *)
(* exception leaves the tool.                                              *)
(*                                                                         *)
(* Dates are day ordinals of valid ISO dates; names of room types and the  *)
(* labels matched against them are sequences of characters.                *)
(***************************************************************************)
EXTENDS Integers, Sequences, FiniteSets, TLC

\* ---------------------------------------------------------------- bounds
NProcs == 2
MaxDay == 3
MaxCalls == 2
MaxFilas == 2

Procs == 1..NProcs
Days == 1..MaxDay

Nombres == {"Ana", "Bo"}
Emails == {"a@x", "b@x"}
Labels == {<<"a", "b">>, <<"C">>, <<"z">>}
ReservaIds == 1..(MaxFilas + 1)

\* ------------------------------------------------------- catalog (tables)
\* RoomTypes rows, by id.  Both names contain "ab" up to case; only the
\* second contains "c".
RoomTypes ==
    [id \in {1, 2} |->
        IF id = 1 THEN [name |-> <<"A", "b">>, base_price |-> 100]
                  ELSE [name |-> <<"a", "B", "c">>, base_price |-> 150]]

\* Rooms rows: room id -> room_type_id.  Two rooms of type 1, one of type 2.
Rooms == [id \in {1, 2, 3} |-> IF id = 3 THEN 2 ELSE 1]

\* ------------------------------------------------------------- helpers
\* Case folding of ILIKE over the alphabet in use.
Lower(c) ==
    CASE c = "A" -> "a"
      [] c = "B" -> "b"
      [] c = "C" -> "c"
      [] OTHER -> c

LowerSeq(s) == [i \in 1..Len(s) |-> Lower(s[i])]

\* name ILIKE '%' || label || '%' : case-insensitive substring match.
ILike(name, label) ==
    \E i \in 0..(Len(name) - Len(label)) :
        SubSeq(LowerSeq(name), i + 1, i + Len(label)) = LowerSeq(label)

\* Rows of RoomTypes that the WHERE clause of the lookup selects, for each
\* label in use (RoomTypes is never written, so the rows depend on the label
\* only).
TiposPorEtiqueta ==
    [l \in Labels |-> {t \in DOMAIN RoomTypes : ILike(RoomTypes[t].name, l)}]

\* The rows the lookup selects for a label; fetchrow returns one of them
\* (the query has no ORDER BY) or None.
TiposCoincidentes(label) == TiposPorEtiqueta[label]

Min2(a, b) == IF a <= b THEN a ELSE b
Max2(a, b) == IF a >= b THEN a ELSE b

\* PostgreSQL's (s1, e1) OVERLAPS (s2, e2): each pair is put in order, then
\* the later-starting period overlaps iff it starts before the other ends;
\* periods with equal starts always overlap.
Overlaps(s1, e1, s2, e2) ==
    LET ts1 == Min2(s1, e1)  te1 == Max2(s1, e1)
        ts2 == Min2(s2, e2)  te2 == Max2(s2, e2)
    IN  IF ts1 > ts2 THEN ts1 < te2
        ELSE IF ts1 < ts2 THEN ts2 < te1
        ELSE TRUE

\* The subquery of the availability query: rooms having an assignment whose
\* booking overlaps the requested dates and is not Cancelled.
HabitacionesOcupadas(B, RA, d1, d2) ==
    {ra.room_id : ra \in {x \in RA :
        \E b \in B : /\ b.id = x.booking_id
                     /\ Overlaps(b.check_in_date, b.check_out_date, d1, d2)
                     /\ b.status # "Cancelled"}}

\* Rooms of the type that are NOT IN the subquery.
HabitacionesLibres(B, RA, tipo, d1, d2) ==
    {r \in DOMAIN Rooms : Rooms[r] = tipo /\ r \notin HabitacionesOcupadas(B, RA, d1, d2)}

\* ---------------------------------------------------------------- state
VARIABLES
    Users,            \* rows of Users: [id, full_name, email]
    Bookings,         \* rows of Bookings
    RoomAssignments,  \* rows of RoomAssignments: [booking_id, room_id]
    pc,               \* position of each task
    args,             \* arguments of each task's call in progress
    result,           \* value returned (or exception raised) by each task's last call
    calls             \* number of tool calls started

tables == <<Users, Bookings, RoomAssignments>>
vars == <<Users, Bookings, RoomAssignments, pc, args, result, calls>>

NoArgs == [tool |-> "none"]
NoResult == [kind |-> "none"]

\* ----------------------------------------------- contents of the database
\* The guests on record.  Users.email is unique (the upsert's ON CONFLICT
\* (email) needs the constraint).
Huespedes ==
    {[id |-> 1, full_name |-> "Ana", email |-> "a@x"],
     [id |-> 2, full_name |-> "Bo", email |-> "b@x"]}

\* What a booking on record can be: its stay (check-in before check-out),
\* its room and its status.
Reservables ==
    [check_in_date : Days, check_out_date : Days,
     room_id : DOMAIN Rooms,
     status : {"Confirmed", "Cancelled"}]

\* The Bookings row and the RoomAssignments row of booking id on record;
\* the bookings belong to the guests in turn.
FilaDe(id, x) ==
    [id |-> id, user_id |-> ((id - 1) % Cardinality(Huespedes)) + 1,
     check_in_date |-> x.check_in_date,
     check_out_date |-> x.check_out_date,
     total_amount |-> (x.check_out_date - x.check_in_date)
                         * RoomTypes[Rooms[x.room_id]].base_price,
     status |-> x.status]

AsignacionDe(id, x) == [booking_id |-> id, room_id |-> x.room_id]

\* Databases the server can be connected to: bookings 1..n (n <= MaxFilas).
\* server.py creates no table and checks nothing about the rows it finds;
\* the rows are taken to satisfy the data invariants the specification
\* gives for stored data (a stay of at least one night, one room per
\* booking, no room with two Confirmed bookings whose stays overlap).  This
\* is an assumption about the environment: no property of the program is
\* concluded from it.
BasesIniciales ==
    {f \in UNION {[1..n -> Reservables] : n \in 0..MaxFilas} :
        /\ \A i \in DOMAIN f : f[i].check_in_date < f[i].check_out_date
        /\ \A i \in DOMAIN f : \A j \in DOMAIN f :
              ( /\ i # j
                /\ f[i].room_id = f[j].room_id
                /\ f[i].status = "Confirmed" /\ f[j].status = "Confirmed" )
              => ~( /\ f[i].check_in_date < f[j].check_out_date
                    /\ f[j].check_in_date < f[i].check_out_date )}

Init ==
    /\ \E f \in BasesIniciales :
          /\ Bookings = {FilaDe(i, f[i]) : i \in DOMAIN f}
          /\ RoomAssignments = {AsignacionDe(i, f[i]) : i \in DOMAIN f}
    /\ Users = Huespedes
    /\ pc = [p \in Procs |-> "idle"]
    /\ args = [p \in Procs |-> NoArgs]
    /\ result = [p \in Procs |-> NoResult]
    /\ calls = 0

\* ------------------------------------------------------ statement effects
CancelarPendiente(B, reserva_id) ==
    {IF b.id = reserva_id THEN [b EXCEPT !.status = "Pending"] ELSE b : b \in B}

CancelarTodas(B, reserva_id) == {[b EXCEPT !.status = "Cancelled"] : b \in B}

\* UPDATE Bookings SET status = 'Cancelled' WHERE id = reserva_id
CancelarFilas(B, reserva_id) ==
    {IF b.id = reserva_id THEN [b EXCEPT !.status = "Cancelled"] ELSE b : b \in B}

ValidoSinEmail(B, U, reserva_id, email) ==
    \E b \in B : \E u \in U : b.user_id = u.id /\ b.id = reserva_id

\* SELECT b.id FROM Bookings b JOIN Users u ... WHERE b.id = $1 AND u.email = $2
Valido(B, U, reserva_id, email) ==
    \E b \in B : \E u \in U : b.user_id = u.id /\ b.id = reserva_id /\ u.email = email

\* --------------------------------------------------------------- actions
\* A call returns (or its exception leaves the tool).
Return(p, r) ==
    /\ pc' = [pc EXCEPT ![p] = "idle"]
    /\ result' = [result EXCEPT ![p] = r]
    /\ args' = [args EXCEPT ![p] = NoArgs]

CrearReservaUpsert(p, n, e, d1, d2, l) ==
    /\ pc[p] = "idle"
    /\ calls < MaxCalls
    /\ calls' = calls + 1
    /\ TiposCoincidentes(l) # {}
    /\ Users' = {IF u.email = e THEN [u EXCEPT !.full_name = n] ELSE u : u \in Users}
    /\ Return(p, [kind |-> "error", msg |-> "DataError", valor |-> d1])
    /\ UNCHANGED <<Bookings, RoomAssignments>>

\* crear_reserva, the whole call: the transaction opens;
\*   SELECT id, base_price FROM RoomTypes WHERE name ILIKE ...  (no row:
\*     return from inside the block, the empty transaction commits);
\*   the room SELECT: fecha_entrada (a str) is not accepted for $2::date,
\*     the DataError rolls the transaction back and line 128 returns its
\*     text, which quotes the rejected value.
\* BEGIN, the lookup or the preparation of the room SELECT may fail in the
\* database: line 128 returns that error's text.
\* No statement of the call reads or writes a table another task writes, so
\* the call is one step.
CrearReservaCon(p, n, e, d1, d2, l) ==
    /\ pc[p] = "idle"
    /\ calls < MaxCalls
    /\ calls' = calls + 1
    /\ \/ Return(p, [kind |-> "error", msg |-> "storage"])
       \/ /\ TiposCoincidentes(l) = {}
          /\ Return(p, [kind |-> "tipo_no_encontrado"])
       \/ /\ TiposCoincidentes(l) # {}
          /\ Return(p, [kind |-> "error", msg |-> "DataError", valor |-> d1])
    /\ UNCHANGED <<Users, Bookings, RoomAssignments>>

CrearReserva(p) ==
    \E n \in Nombres, e \in Emails, d1 \in Days, d2 \in Days, l \in Labels :
        CrearReservaCon(p, n, e, d1, d2, l)

\* cancelar_reserva is called and runs the SELECT that checks the booking
\* against the email; no row: the not-found message.
CancelarReservaCon(p, i, e) ==
    /\ pc[p] = "idle"
    /\ calls < MaxCalls
    /\ calls' = calls + 1
    /\ IF ~Valido(Bookings, Users, i, e)
       THEN Return(p, [kind |-> "no_encontrada"])
       ELSE /\ args' = [args EXCEPT ![p] =
                          [tool |-> "cancelar_reserva", reserva_id |-> i, email |-> e]]
            /\ pc' = [pc EXCEPT ![p] = "ca_update"]
            /\ result' = [result EXCEPT ![p] = NoResult]
    /\ UNCHANGED <<Users, Bookings, RoomAssignments>>

CancelarReserva(p) ==
    \E i \in ReservaIds, e \in Emails : CancelarReservaCon(p, i, e)

\* The UPDATE, then the success message.
CaUpdate(p) ==
    /\ pc[p] = "ca_update"
    /\ Bookings' = CancelarFilas(Bookings, args[p].reserva_id)
    /\ Return(p, [kind |-> "cancelada", b_id |-> args[p].reserva_id])
    /\ UNCHANGED <<Users, RoomAssignments, calls>>

\* obtener_opciones_habitacion: SELECT name, base_price, description FROM
\* RoomTypes, returned as text.
ObtenerOpciones(p) ==
    /\ pc[p] = "idle"
    /\ calls < MaxCalls
    /\ calls' = calls + 1
    /\ Return(p, [kind |-> "opciones",
                  filas |-> {<<RoomTypes[t].name, RoomTypes[t].base_price>> :
                                t \in DOMAIN RoomTypes}])
    /\ UNCHANGED <<Users, Bookings, RoomAssignments>>

\* calcular_presupuesto: the lookup of the type (none: the not-found text);
\* then line 59 evaluates the undefined name calcular_noches and the
\* NameError leaves the tool.
CalcularPresupuestoCon(p, d1, d2, l) ==
    /\ pc[p] = "idle"
    /\ calls < MaxCalls
    /\ calls' = calls + 1
    /\ IF TiposCoincidentes(l) = {}
       THEN Return(p, [kind |-> "presupuesto_sin_tipo", tipo_habitacion |-> l])
       ELSE Return(p, [kind |-> "excepcion", msg |-> "NameError"])
    /\ UNCHANGED <<Users, Bookings, RoomAssignments>>

CalcularPresupuesto(p) ==
    \E d1 \in Days, d2 \in Days, l \in Labels : CalcularPresupuestoCon(p, d1, d2, l)

CantidadTodas(B, RA, tipo, d1, d2) ==
    Cardinality({r \in DOMAIN Rooms : Rooms[r] = tipo})

\* COUNT(*) of the rooms of the type that are NOT IN the subquery.
Cantidad(B, RA, tipo, d1, d2) == Cardinality(HabitacionesLibres(B, RA, tipo, d1, d2))

VerificarDisponibilidadHold(p, d1, d2, l) ==
    /\ pc[p] = "idle"
    /\ calls < MaxCalls
    /\ calls' = calls + 1
    /\ \E t \in TiposCoincidentes(l) :
         \E h \in HabitacionesLibres(Bookings, RoomAssignments, t, d1, d2) :
            /\ RoomAssignments' = RoomAssignments \cup {[booking_id |-> 0, room_id |-> h]}
            /\ Return(p, [kind |-> "disponible",
                          cantidad |-> Cantidad(Bookings, RoomAssignments, t, d1, d2),
                          tipo_habitacion |-> l])
    /\ UNCHANGED <<Users, Bookings>>

\* verificar_disponibilidad: the lookup of the type (none: the not-valid
\* text), the COUNT query, and one of the two answers.
VerificarDisponibilidadCon(p, d1, d2, l) ==
    /\ pc[p] = "idle"
    /\ calls < MaxCalls
    /\ calls' = calls + 1
    /\ IF TiposCoincidentes(l) = {}
       THEN Return(p, [kind |-> "tipo_no_valido", tipo_habitacion |-> l])
       ELSE \E t \in TiposCoincidentes(l) :
         LET cantidad == Cantidad(Bookings, RoomAssignments, t, d1, d2) IN
         IF cantidad > 0
         THEN Return(p, [kind |-> "disponible", cantidad |-> cantidad,
                         tipo_habitacion |-> l])
         ELSE Return(p, [kind |-> "no_disponible", tipo_habitacion |-> l])
    /\ UNCHANGED <<Users, Bookings, RoomAssignments>>

VerificarDisponibilidad(p) ==
    \E d1 \in Days, d2 \in Days, l \in Labels : VerificarDisponibilidadCon(p, d1, d2, l)

Next ==
    \E p \in Procs :
        \/ CrearReserva(p)
        \/ CancelarReserva(p)
        \/ CaUpdate(p)
        \/ ObtenerOpciones(p)
        \/ CalcularPresupuesto(p)
        \/ VerificarDisponibilidad(p)

Spec == Init /\ [][Next]_vars

\* The same tools called one at a time: a call starts only when no call is
\* in progress.
NextSeq ==
    \E p \in Procs :
        \/ (\A q \in Procs : pc[q] = "idle") /\ CrearReserva(p)
        \/ (\A q \in Procs : pc[q] = "idle") /\ CancelarReserva(p)
        \/ CaUpdate(p)
        \/ (\A q \in Procs : pc[q] = "idle") /\ ObtenerOpciones(p)
        \/ (\A q \in Procs : pc[q] = "idle") /\ CalcularPresupuesto(p)
        \/ (\A q \in Procs : pc[q] = "idle") /\ VerificarDisponibilidad(p)

SpecSeq == Init /\ [][NextSeq]_vars

\* ---------------------------------------------------------------- claims
\* The overlap test of the specification (half-open intervals), written as
\* explicit comparisons.
SeSolapan(a_start, a_end, b_start, b_end) == a_start < b_end /\ b_start < a_end

\* Rooms a booking is assigned to.
HabitacionesDe(RA, b_id) == {ra.room_id : ra \in {x \in RA : x.booking_id = b_id}}

\* Confirmed bookings assigned to room r.
ConfirmadasEn(B, RA, r) ==
    {b \in B : b.status = "Confirmed" /\ r \in HabitacionesDe(RA, b.id)}

Ids(B) == {b.id : b \in B}

\* No Confirmed booking of room r overlaps [d1, d2).
Libre(r, d1, d2) ==
    \A b \in ConfirmadasEn(Bookings, RoomAssignments, r) :
        ~SeSolapan(b.check_in_date, b.check_out_date, d1, d2)

\* Rooms of a category with no Confirmed booking assigned to them that
\* overlaps [d1, d2) in the half-open sense.
SinSolape(tipo, d1, d2) ==
    {r \in DOMAIN Rooms : Rooms[r] = tipo /\ Libre(r, d1, d2)}

\* Labels that match at least one category.
Etiquetas == {l \in Labels : TiposCoincidentes(l) # {}}

\* A step in which a call of task p starts and returns at once, no other
\* task moving.
Devuelve(p) ==
    /\ pc[p] = "idle"
    /\ pc' = pc
    /\ calls' = calls + 1
    /\ \A q \in Procs \ {p} : result'[q] = result[q]

\* A step that is a crear_reserva call of task p with these dates and this
\* label which the database did not fail.
Reserva(p, d1, d2, l) ==
    /\ Devuelve(p)
    /\ result'[p] # [kind |-> "error", msg |-> "storage"]
    /\ \E n \in Nombres, e \in Emails : CrearReservaCon(p, n, e, d1, d2, l)

\* The call returned the confirmation and committed one Confirmed booking
\* of room r for [d1, d2) with its assignment.
Confirmada(p, r, d1, d2) ==
    /\ result'[p].kind = "confirmada"
    /\ \E b \in Bookings' :
          /\ b.id \notin Ids(Bookings)
          /\ Bookings' = Bookings \cup {b}
          /\ b.status = "Confirmed"
          /\ b.check_in_date = d1 /\ b.check_out_date = d2
          /\ RoomAssignments' =
                RoomAssignments \cup {[booking_id |-> b.id, room_id |-> r]}

\* No double allocation: for every room, the Confirmed bookings assigned to
\* it have pairwise non-overlapping half-open intervals.
SinDobleAsignacion ==
    \A r \in DOMAIN Rooms :
        \A b1 \in ConfirmadasEn(Bookings, RoomAssignments, r) :
            \A b2 \in ConfirmadasEn(Bookings, RoomAssignments, r) :
                b1.id # b2.id =>
                    ~SeSolapan(b1.check_in_date, b1.check_out_date,
                               b2.check_in_date, b2.check_out_date)

\* C2: each of the concurrent crear_reserva calls for one category and one
\* interval check_in < check_out ends as the claim says: it succeeds with a
\* room of the category that was free, or it fails with the no-availability
\* or the concurrent-conflict result.
C2_ExactlyMSucceed ==
    [][ \A p \in Procs : \A l \in Etiquetas :
        \A d1 \in Days : \A d2 \in {d \in Days : d1 < d} :
           Reserva(p, d1, d2, l) =>
              \/ \E t \in TiposCoincidentes(l) : \E r \in SinSolape(t, d1, d2) :
                    Confirmada(p, r, d1, d2)
              \/ result'[p].kind \in {"sin_habitaciones", "conflicto"} ]_vars

\* Result kinds of crear_reserva other than the confirmation.
C3_Fallos == {"error", "tipo_no_encontrado", "sin_habitaciones"}

\* C3: a crear_reserva call that fails (category not found, an exception
\* turned into the "Error: ..." text) leaves Users, Bookings and
\* RoomAssignments exactly as they were before the call.
C3_AllOrNothing ==
    [][ \A p \in Procs :
          (Devuelve(p) /\ result'[p].kind \in C3_Fallos) => tables' = tables ]_vars

\* With bookings on record, one call failed for a label that matches no
\* category and another on the rejected date argument.
C3_Witness ==
    /\ \E p \in Procs : result[p] = [kind |-> "tipo_no_encontrado"]
    /\ \E p \in Procs : result[p].kind = "error" /\ result[p].msg = "DataError"
    /\ Cardinality(Bookings) = MaxFilas
    /\ Cardinality(RoomAssignments) = MaxFilas
    /\ Users = Huespedes

\* C4: for a category with a single room that holds a Confirmed stay ending
\* on day D and no Confirmed stay overlapping [D, b), a crear_reserva of
\* [D, b) for that category succeeds and is assigned that room.
C4_HalfOpenBoundary ==
    [][ \A p \in Procs : \A l \in Etiquetas :
        \A d1 \in Days : \A d2 \in {d \in Days : d1 < d} :
        \A r \in DOMAIN Rooms :
           ( /\ TiposCoincidentes(l) = {Rooms[r]}
             /\ {x \in DOMAIN Rooms : Rooms[x] = Rooms[r]} = {r}
             /\ \E b \in ConfirmadasEn(Bookings, RoomAssignments, r) :
                   b.check_in_date < b.check_out_date /\ b.check_out_date = d1
             /\ Libre(r, d1, d2)
             /\ Reserva(p, d1, d2, l) )
           => Confirmada(p, r, d1, d2) ]_vars

\* C5: when the UPDATE of cancelar_reserva cancels a Confirmed booking, the
\* availability query for the category of its room and its interval finds
\* at least one free room afterwards, and the next crear_reserva for that
\* category and interval succeeds.
C5_CancelReleases ==
    /\ [][ \A p \in Procs :
             (pc[p] = "ca_update" /\ pc'[p] = "idle") =>
                \A b \in Bookings :
                   (b.id = args[p].reserva_id /\ b.status = "Confirmed") =>
                      \A r \in HabitacionesDe(RoomAssignments, b.id) :
                         HabitacionesLibres(Bookings', RoomAssignments', Rooms[r],
                                            b.check_in_date, b.check_out_date) # {} ]_vars
    /\ [][ \A p \in Procs : \A q \in Procs : \A l \in Etiquetas :
           \A b \in Bookings :
              ( /\ result[q] = [kind |-> "cancelada", b_id |-> b.id]
                /\ b.status = "Cancelled"
                /\ \E r \in HabitacionesDe(RoomAssignments, b.id) :
                      /\ TiposCoincidentes(l) = {Rooms[r]}
                      /\ Libre(r, b.check_in_date, b.check_out_date)
                /\ Reserva(p, b.check_in_date, b.check_out_date, l) )
              => result'[p].kind = "confirmada" ]_vars

\* Booking i exists and belongs to the guest with email e.
C6_Propia(i, e) ==
    \E b \in Bookings : b.id = i /\ \E u \in Users : u.id = b.user_id /\ u.email = e

\* C6: cancelar_reserva called with a booking id that does not exist, or
\* with an email that is not the email of the guest of that booking,
\* returns the one not-found result and changes no table.
C6_CancelAuthorization ==
    [][ \A p \in Procs, i \in ReservaIds, e \in Emails :
          (CancelarReservaCon(p, i, e) /\ ~C6_Propia(i, e)) =>
             /\ pc'[p] = "idle"
             /\ result'[p] = [kind |-> "no_encontrada"]
             /\ tables' = tables ]_vars

\* Both tasks' cancels were refused while the bookings on record are all
\* still Confirmed.
C6_Witness ==
    /\ \A p \in Procs : result[p] = [kind |-> "no_encontrada"] /\ pc[p] = "idle"
    /\ Cardinality(Bookings) = MaxFilas
    /\ \A b \in Bookings : b.status = "Confirmed"

\* C7: cancelar_reserva called with the right email on a booking that is
\* already Cancelled returns the not-found result (it does not go on to
\* report success).
C7_CancelTwice ==
    [][ \A p \in Procs, i \in ReservaIds, e \in Emails :
          ( /\ CancelarReservaCon(p, i, e)
            /\ C6_Propia(i, e)
            /\ \E b \in Bookings : b.id = i /\ b.status = "Cancelled" ) =>
             (pc'[p] = "idle" /\ result'[p] = [kind |-> "no_encontrada"]) ]_vars

\* C8: a booking enters the table Confirmed, no booking leaves it, and the
\* only change of a status is from Confirmed to Cancelled.
C8_StatusMonotonic ==
    [][ /\ \A b \in Bookings :
             \E c \in Bookings' :
                /\ c.id = b.id
                /\ (c.status # b.status =>
                       (b.status = "Confirmed" /\ c.status = "Cancelled"))
        /\ \A c \in Bookings' :
             c.id \notin Ids(Bookings) => c.status = "Confirmed" ]_vars

\* A booking was cancelled by one task, the other task's crear_reserva ran
\* afterwards, and the booking is still Cancelled beside a Confirmed one.
C8_Witness ==
    /\ calls = 2
    /\ \A p \in Procs : pc[p] = "idle"
    /\ \E b \in Bookings : \E c \in Bookings :
          /\ b.status = "Cancelled" /\ c.status = "Confirmed"
          /\ \E p \in Procs : result[p] = [kind |-> "cancelada", b_id |-> b.id]
    /\ \E p \in Procs : result[p].kind = "error" /\ result[p].msg = "DataError"

C10_EmailUnico(U) == \A u \in U : \A v \in U : u.email = v.email => u = v

\* C10: no two rows of Users share an email; a crear_reserva for a category
\* with a free room, made with an email that is already in Users and a
\* different name, leaves the number of guests as it is and sets that
\* guest's name to the name of the call.
C10_IdempotentUpsert ==
    /\ [] C10_EmailUnico(Users)
    /\ [][ \A p \in Procs : \A l \in Etiquetas :
           \A d1 \in Days : \A d2 \in {d \in Days : d1 < d} :
           \A n \in Nombres : \A u \in Users :
              ( /\ u.full_name # n
                /\ \A t \in TiposCoincidentes(l) : SinSolape(t, d1, d2) # {}
                /\ Devuelve(p)
                /\ result'[p] # [kind |-> "error", msg |-> "storage"]
                /\ CrearReservaCon(p, n, u.email, d1, d2, l) )
              => /\ Cardinality(Users') = Cardinality(Users)
                 /\ [u EXCEPT !.full_name = n] \in Users' ]_vars

\* C11: a crear_reserva or calcular_presupuesto request for a category that
\* exists whose check-out is not after its check-in is rejected with the
\* validation failure and writes nothing, and every Booking has
\* check_out > check_in.
C11_IntervalValidation ==
    /\ [] (\A b \in Bookings : b.check_out_date > b.check_in_date)
    /\ [][ \A p \in Procs : \A l \in Etiquetas :
           \A d1 \in Days : \A d2 \in 1..d1 :
              ( \/ Reserva(p, d1, d2, l)
                \/ (Devuelve(p) /\ CalcularPresupuestoCon(p, d1, d2, l)) )
              => /\ result'[p] = [kind |-> "error", msg |-> "noches"]
                 /\ tables' = tables ]_vars

\* C13: in any state, verificar_disponibilidad for a label that matches a
\* category and an interval check_in < check_out reports exactly the number
\* of rooms of the category it resolved the label to that have no
\* assignment whose booking is Confirmed and overlaps the interval, and
\* reports no availability exactly when that number is zero.
C13_AvailabilityCount ==
    [][ (calls' # calls /\ pc' = pc) =>
        \A p \in {q \in Procs : pc[q] = "idle" /\
                       result'[q].kind \in {"disponible", "no_disponible"}} :
        \A l \in {k \in Etiquetas : result'[p].tipo_habitacion = k} :
        \A d1 \in Days : \A d2 \in {d \in Days : d1 < d} :
           VerificarDisponibilidadCon(p, d1, d2, l) =>
              \E t \in TiposCoincidentes(l) :
                 LET n == Cardinality(SinSolape(t, d1, d2)) IN
                 /\ (n = 0) <=> (result'[p].kind = "no_disponible")
                 /\ (n > 0) <=> (result'[p] = [kind |-> "disponible", cantidad |-> n,
                                              tipo_habitacion |-> l]) ]_vars

\* One call reported no availability and another reported two free rooms,
\* while a Confirmed booking holds a room.
C13_Witness ==
    /\ \E b \in Bookings : b.status = "Confirmed"
    /\ \E p \in Procs : result[p].kind = "no_disponible"
    /\ \E p \in Procs : result[p].kind = "disponible" /\ result[p].cantidad = 2

\* Result kinds of obtener_opciones_habitacion, calcular_presupuesto and
\* verificar_disponibilidad.
C14_Consultas ==
    {"opciones", "presupuesto", "presupuesto_sin_tipo", "excepcion",
     "tipo_no_valido", "disponible", "no_disponible"}

\* C14: obtener_opciones_habitacion, verificar_disponibilidad and
\* calcular_presupuesto leave Users, Bookings and RoomAssignments unchanged
\* on every path: a step in which a task's call returns one of their
\* results (or raises) changes nothing but that task's result.  (Rooms and
\* RoomTypes are never written.)
C14_ReadOnlyQueries ==
    [][ \A p \in Procs :
          (Devuelve(p) /\ result'[p].kind \in C14_Consultas)
          => (tables' = tables /\ args' = args) ]_vars

\* A reported availability reserved nothing: one task holds the answer
\* "1 room available" for the single-room category, a crear_reserva of the
\* other task for a category was made afterwards and failed, and room 3 has
\* no booking but a Cancelled one.
C14_Witness ==
    /\ \E p \in Procs :
          result[p] = [kind |-> "disponible", cantidad |-> 1, tipo_habitacion |-> <<"C">>]
    /\ \E p \in Procs : result[p].kind = "error" /\ result[p].msg = "DataError"
    /\ ConfirmadasEn(Bookings, RoomAssignments, 3) = {}
    /\ \E b \in Bookings : 3 \in HabitacionesDe(RoomAssignments, b.id)
    /\ calls = 2

\* C15: when several rooms of the category are free for the requested
\* interval, crear_reserva assigns the free room with the lowest id.
C15_LowestRoom ==
    [][ \A p \in Procs : \A l \in Etiquetas :
        \A d1 \in Days : \A d2 \in {d \in Days : d1 < d} :
           ( /\ \E t \in TiposCoincidentes(l) : Cardinality(SinSolape(t, d1, d2)) >= 2
             /\ Reserva(p, d1, d2, l) )
           => \E t \in TiposCoincidentes(l) : \E r \in SinSolape(t, d1, d2) :
                 /\ \A x \in SinSolape(t, d1, d2) : r <= x
                 /\ \E ra \in RoomAssignments' \ RoomAssignments : ra.room_id = r ]_vars

\* C16: a crear_reserva that starts when every room of the category has a
\* committed Confirmed booking overlapping the requested interval returns
\* the no-availability result, whatever an earlier verificar_disponibilidad
\* reported, and creates no Booking or RoomAssignment.
C16_NoStaleAvailability ==
    [][ \A p \in Procs : \A l \in Etiquetas :
        \A d1 \in Days : \A d2 \in {d \in Days : d1 < d} :
           ( /\ \A t \in TiposCoincidentes(l) : SinSolape(t, d1, d2) = {}
             /\ Reserva(p, d1, d2, l) )
           => /\ result'[p] = [kind |-> "sin_habitaciones"]
              /\ tables' = tables ]_vars

\* C17: a cancelar_reserva that succeeds changes only the status of the one
\* booking named by reserva_id: no booking is added or removed, every other
\* booking is unchanged, the cancelled booking keeps its guest, dates and
\* total, and Users and RoomAssignments are unchanged.
C17_CancelFrame ==
    [][ \A p \in Procs :
          (pc[p] = "ca_update" /\ result'[p].kind = "cancelada") =>
             /\ result'[p].b_id = args[p].reserva_id
             /\ Users' = Users
             /\ RoomAssignments' = RoomAssignments
             /\ Cardinality(Bookings') = Cardinality(Bookings)
             /\ \A b \in Bookings :
                  IF b.id = args[p].reserva_id
                  THEN [b EXCEPT !.status = "Cancelled"] \in Bookings'
                  ELSE b \in Bookings' ]_vars

\* Booking 2 was cancelled successfully while booking 1 is still Confirmed
\* and both assignments are in place.
C17_Witness ==
    /\ \E p \in Procs : result[p] = [kind |-> "cancelada", b_id |-> 2]
    /\ \E b \in Bookings : b.id = 2 /\ b.status = "Cancelled" /\ b.total_amount > 0
    /\ \E c \in Bookings : c.id = 1 /\ c.status = "Confirmed"
    /\ {ra.booking_id : ra \in RoomAssignments} = {1, 2}

\* The matching category with the lowest id.
C18_Primero(l) ==
    CHOOSE t \in TiposCoincidentes(l) : \A u \in TiposCoincidentes(l) : t <= u

\* C18: when the label matches more than one category, every call resolves
\* it to the matching category with the lowest id: verificar_disponibilidad
\* answers with the count of that category's free rooms.
C18_LowestCategory ==
    [][ \A p \in Procs : \A l \in Etiquetas :
        \A d1 \in Days : \A d2 \in {d \in Days : d1 < d} :
           (Devuelve(p) /\ VerificarDisponibilidadCon(p, d1, d2, l)) =>
              LET n == Cantidad(Bookings, RoomAssignments, C18_Primero(l), d1, d2) IN
              result'[p] = IF n > 0
                           THEN [kind |-> "disponible", cantidad |-> n,
                                 tipo_habitacion |-> l]
                           ELSE [kind |-> "no_disponible", tipo_habitacion |-> l] ]_vars

\* C19: when the tools are called one at a time, every reachable state has
\* no double allocation, and a crear_reserva for a label that matches a
\* category and an interval check_in < check_out succeeds exactly when a
\* room of the category it resolved to has no Confirmed overlapping
\* assignment, and returns the no-availability result otherwise.
C19_SequentialCapacity ==
    /\ [] SinDobleAsignacion
    /\ [][ \A p \in Procs : \A l \in Etiquetas :
           \A d1 \in Days : \A d2 \in {d \in Days : d1 < d} :
              Reserva(p, d1, d2, l) =>
                 \E t \in TiposCoincidentes(l) :
                    IF SinSolape(t, d1, d2) # {}
                    THEN \E r \in SinSolape(t, d1, d2) : Confirmada(p, r, d1, d2)
                    ELSE result'[p] = [kind |-> "sin_habitaciones"]
                         /\ tables' = tables ]_vars

====
